---- MODULE Spec2Model ----
(***************************************************************************)
(* ParallelSystemRunner::run (agent-concurrent/rust/src/lib.rs).           *)
(*                                                                         *)
(* The calling thread enters run holding the GIL, copies the list into     *)
(* systems_vec, releases the GIL for the closure of py.allow_threads and   *)
(* hands systems_vec.par_iter().try_for_each(..) to the Rayon pool.  The   *)
(* pool cuts the index range [0, len) in halves (join) down to leaves; a   *)
(* leaf is folded on one worker: for each system the worker takes the GIL  *)
(* (Python::with_gil), calls update(current_tick), drops the GIL and feeds *)
(* the outcome to the try-reduce folder, which raises the shared `full`    *)
(* flag on the first Err and stops.  Joins reduce the two halves, the left *)
(* residual winning.  allow_threads then takes the GIL back and run        *)
(* returns the reduced value.                                              *)
(***************************************************************************)
EXTENDS Integers, Sequences, FiniteSets

\* Bounds of the model: the longest batch and the size of the Rayon pool.
MaxBatch == 3
NumWorkers == 2

\* Threads: the pool's workers, and the thread that calls run.
Workers == 1..NumWorkers
Caller == 0
NoThread == -1

\* What a system's update does when called: returns, or raises a PyErr.
Msgs == {"boom", "bang"}
Outcomes == {"ok"} \cup Msgs
Ticks == {7, 42}

\* The value of the closure and of the reduction: Ok(()) / Continue, or the
\* PyErr that a system's update raised.  `err` is what the PyErr says; `task`
\* tells one raised PyErr from another (the position whose update raised it)
\* and is no part of what the caller can read from the error.
Continue == [err |-> "none", task |-> -1]
Err(i, msg) == [err |-> msg, task |-> i]
Values == {Continue} \cup {Err(i, m) : i \in 0..(MaxBatch - 1), m \in Msgs}

\* Index ranges [lo, hi) of systems_vec that the pool works on.
Ranges == {r \in (0..MaxBatch) \X (0..MaxBatch) : r[1] <= r[2]}

VARIABLES
    systems,       \* systems_vec: per position, what that system's update does
    current_tick,  \* the tick passed to run
    cpc,           \* calling thread: "entry", "allow_threads", "returned"
    gil,           \* thread holding the GIL, or NoThread
    full,          \* try_reduce's shared AtomicBool
    nst,           \* per range: "none", "ready", "split", "folding", "done"
    nres,          \* per range: the reduced value once done
    wpc,           \* worker: "idle", "with_gil", "update", "consume"
    wnode,         \* the leaf a worker folds
    widx,          \* position of the item the worker is at
    wret,          \* value the closure returned for that item
    wctrl,         \* the folder's control value
    received,      \* per position: the ticks its update was invoked with
    acquired,      \* GIL acquisitions since run was entered: by workers, by the caller
    result,        \* what run returned: "Ok", or what the PyErr says
    raisedBy,      \* the position whose update raised the PyErr run returned
    firstFailure,  \* the position whose Err was the first the folders took, or -1
    failedBefore   \* an earlier run call on this runner returned an error

vars == <<systems, current_tick, cpc, gil, full, nst, nres, wpc, wnode, widx,
          wret, wctrl, received, acquired, result, raisedBy, firstFailure,
          failedBefore>>

Root == <<0, Len(systems)>>

\* systems_vec[i], 0-based as in the source.
System(i) == systems[i + 1]

\* producer.split_at(len / 2)
Mid(r) == r[1] + ((r[2] - r[1]) \div 2)

\* Variant: the left half is cut one item too long and overlaps the right half.
LeftOf_Overlap(r) == <<r[1], Mid(r) + 1>>

LeftOf(r) == <<r[1], Mid(r)>>
RightOf(r) == <<Mid(r), r[2]>>

TypeOK ==
    /\ systems \in UNION {[1..n -> Outcomes] : n \in 0..MaxBatch}
    /\ current_tick \in Ticks
    /\ cpc \in {"entry", "allow_threads", "returned"}
    /\ gil \in Workers \cup {Caller, NoThread}
    /\ full \in BOOLEAN
    /\ nst \in [Ranges -> {"none", "ready", "split", "folding", "done"}]
    /\ nres \in [Ranges -> Values]
    /\ wpc \in [Workers -> {"idle", "with_gil", "update", "consume"}]
    /\ wnode \in [Workers -> Ranges]
    /\ widx \in [Workers -> 0..MaxBatch]
    /\ wret \in [Workers -> Values]
    /\ wctrl \in [Workers -> Values]
    /\ received \in [0..(MaxBatch - 1) -> Seq(Ticks)]
    /\ acquired \in [{"worker", "caller"} -> Nat]
    /\ result \in {"none", "Ok"} \cup Msgs
    /\ raisedBy \in -1..(MaxBatch - 1)
    /\ firstFailure \in -1..(MaxBatch - 1)
    /\ failedBefore \in BOOLEAN

\* run has been entered: the caller holds the GIL and systems_vec is built.
Init ==
    /\ systems \in UNION {[1..n -> Outcomes] : n \in 0..MaxBatch}
    /\ current_tick \in Ticks
    /\ cpc = "entry"
    /\ gil = Caller
    /\ full = FALSE
    /\ nst = [r \in Ranges |-> "none"]
    /\ nres = [r \in Ranges |-> Continue]
    /\ wpc = [w \in Workers |-> "idle"]
    /\ wnode = [w \in Workers |-> <<0, 0>>]
    /\ widx = [w \in Workers |-> 0]
    /\ wret = [w \in Workers |-> Continue]
    /\ wctrl = [w \in Workers |-> Continue]
    /\ received = [i \in 0..(MaxBatch - 1) |-> <<>>]
    /\ acquired = [t \in {"worker", "caller"} |-> 0]
    /\ result = "none"
    /\ raisedBy = -1
    /\ firstFailure = -1
    /\ failedBefore = FALSE

\* Variant: the pool is started without allow_threads, the caller keeping the GIL.
AllowThreads_KeepsGil ==
    /\ cpc = "entry"
    /\ cpc' = "allow_threads"
    /\ nst' = [nst EXCEPT ![Root] = "ready"]
    /\ UNCHANGED <<systems, current_tick, gil, full, nres, wpc, wnode, widx,
                   wret, wctrl, received, acquired, result, raisedBy,
                   firstFailure, failedBefore>>

\* py.allow_threads(|| ..): the caller gives up the GIL and blocks on the pool,
\* which now has the whole range to work on.
AllowThreads ==
    /\ cpc = "entry"
    /\ cpc' = "allow_threads"
    /\ gil' = NoThread
    /\ nst' = [nst EXCEPT ![Root] = "ready"]
    /\ UNCHANGED <<systems, current_tick, full, nres, wpc, wnode, widx, wret,
                   wctrl, received, acquired, result, raisedBy,
                   firstFailure, failedBefore>>

\* The pool's workers are interchangeable and any idle one may find a ready
\* range: the one that does is named as the lowest-numbered idle worker.
Finds(w) ==
    /\ wpc[w] = "idle"
    /\ \A v \in Workers : wpc[v] = "idle" => w <= v

\* A worker reaches a range whose consumer is already full: the range is
\* dropped, its value the identity of the reduction.
HelperFull(w, r) ==
    /\ Finds(w)
    /\ nst[r] = "ready"
    /\ full
    /\ nst' = [nst EXCEPT ![r] = "done"]
    /\ nres' = [nres EXCEPT ![r] = Continue]
    /\ UNCHANGED <<systems, current_tick, cpc, gil, full, wpc, wnode, widx,
                   wret, wctrl, received, acquired, result, raisedBy,
                   firstFailure, failedBefore>>

\* The range is cut at len / 2 and the halves are joined; a range of one item
\* (len / 2 < min_len) is never cut.  Whether a longer one is cut is the
\* splitter's choice (thread count, steals), left open here.
HelperSplit(w, r) ==
    /\ Finds(w)
    /\ nst[r] = "ready"
    /\ ~full
    /\ r[2] - r[1] >= 2
    /\ nst' = [nst EXCEPT ![r] = "split", ![LeftOf(r)] = "ready",
                          ![RightOf(r)] = "ready"]
    /\ UNCHANGED <<systems, current_tick, cpc, gil, full, nres, wpc, wnode,
                   widx, wret, wctrl, received, acquired, result, raisedBy,
                   firstFailure, failedBefore>>

\* Variant: the fold starts at the range's second item.
HelperFold_SkipFirst(w, r) ==
    /\ Finds(w)
    /\ nst[r] = "ready"
    /\ ~full
    /\ IF r[1] + 1 < r[2]
          THEN /\ nst' = [nst EXCEPT ![r] = "folding"]
               /\ wpc' = [wpc EXCEPT ![w] = "with_gil"]
               /\ wnode' = [wnode EXCEPT ![w] = r]
               /\ widx' = [widx EXCEPT ![w] = r[1] + 1]
               /\ UNCHANGED nres
          ELSE /\ nst' = [nst EXCEPT ![r] = "done"]
               /\ nres' = [nres EXCEPT ![r] = Continue]
               /\ UNCHANGED <<wpc, wnode, widx>>
    /\ UNCHANGED <<systems, current_tick, cpc, gil, full, wret, wctrl, received,
                   acquired, result, raisedBy, firstFailure, failedBefore>>

\* Variant: the worker takes the GIL before it looks at the range, empty or not.
HelperFold_GilFirst(w, r) ==
    /\ Finds(w)
    /\ nst[r] = "ready"
    /\ ~full
    /\ nst' = [nst EXCEPT ![r] = "folding"]
    /\ wpc' = [wpc EXCEPT ![w] = "with_gil"]
    /\ wnode' = [wnode EXCEPT ![w] = r]
    /\ widx' = [widx EXCEPT ![w] = r[1]]
    /\ UNCHANGED <<systems, current_tick, cpc, gil, full, nres, wret, wctrl,
                   received, acquired, result, raisedBy,
                   firstFailure, failedBefore>>

\* Variant: a range is folded whether or not the consumer is already full.
HelperFold_IgnoresFull(w, r) ==
    /\ Finds(w)
    /\ nst[r] = "ready"
    /\ IF r[1] < r[2]
          THEN /\ nst' = [nst EXCEPT ![r] = "folding"]
               /\ wpc' = [wpc EXCEPT ![w] = "with_gil"]
               /\ wnode' = [wnode EXCEPT ![w] = r]
               /\ widx' = [widx EXCEPT ![w] = r[1]]
               /\ UNCHANGED nres
          ELSE /\ nst' = [nst EXCEPT ![r] = "done"]
               /\ nres' = [nres EXCEPT ![r] = Continue]
               /\ UNCHANGED <<wpc, wnode, widx>>
    /\ UNCHANGED <<systems, current_tick, cpc, gil, full, wret, wctrl, received,
                   acquired, result, raisedBy, firstFailure, failedBefore>>

\* Variant: a range taken for folding stays ready for another worker to take.
HelperFold_LeavesReady(w, r) ==
    /\ Finds(w)
    /\ nst[r] = "ready"
    /\ ~full
    /\ IF r[1] < r[2]
          THEN /\ wpc' = [wpc EXCEPT ![w] = "with_gil"]
               /\ wnode' = [wnode EXCEPT ![w] = r]
               /\ widx' = [widx EXCEPT ![w] = r[1]]
               /\ UNCHANGED <<nst, nres>>
          ELSE /\ nst' = [nst EXCEPT ![r] = "done"]
               /\ nres' = [nres EXCEPT ![r] = Continue]
               /\ UNCHANGED <<wpc, wnode, widx>>
    /\ UNCHANGED <<systems, current_tick, cpc, gil, full, wret, wctrl, received,
                   acquired, result, raisedBy, firstFailure, failedBefore>>

\* The range is folded sequentially on this worker, from its first item; an
\* empty range completes at once, with the folder's initial control.
HelperFold(w, r) ==
    /\ Finds(w)
    /\ nst[r] = "ready"
    /\ ~full
    /\ IF r[1] < r[2]
          THEN /\ nst' = [nst EXCEPT ![r] = "folding"]
               /\ wpc' = [wpc EXCEPT ![w] = "with_gil"]
               /\ wnode' = [wnode EXCEPT ![w] = r]
               /\ widx' = [widx EXCEPT ![w] = r[1]]
               /\ UNCHANGED nres
          ELSE /\ nst' = [nst EXCEPT ![r] = "done"]
               /\ nres' = [nres EXCEPT ![r] = Continue]
               /\ UNCHANGED <<wpc, wnode, widx>>
    /\ UNCHANGED <<systems, current_tick, cpc, gil, full, wret, wctrl, received,
                   acquired, result, raisedBy, firstFailure, failedBefore>>

\* Variant: the worker enters update without waiting for the GIL to be free.
WithGil_NoWait(w) ==
    /\ wpc[w] = "with_gil"
    /\ gil' = w
    /\ acquired' = [acquired EXCEPT !["worker"] = @ + 1]
    /\ received' = [received EXCEPT ![widx[w]] = Append(@, current_tick)]
    /\ wpc' = [wpc EXCEPT ![w] = "update"]
    /\ UNCHANGED <<systems, current_tick, cpc, full, nst, nres, wnode, widx,
                   wret, wctrl, result, raisedBy, firstFailure, failedBefore>>

\* Variant: update is passed the item's position in place of the tick.
WithGil_PassesIndex(w) ==
    /\ wpc[w] = "with_gil"
    /\ gil = NoThread
    /\ gil' = w
    /\ acquired' = [acquired EXCEPT !["worker"] = @ + 1]
    /\ received' = [received EXCEPT ![widx[w]] = Append(@, widx[w])]
    /\ wpc' = [wpc EXCEPT ![w] = "update"]
    /\ UNCHANGED <<systems, current_tick, cpc, full, nst, nres, wnode, widx,
                   wret, wctrl, result, raisedBy, firstFailure, failedBefore>>

\* Python::with_gil(|py| system.call_method1(py, "update", (current_tick,))):
\* the worker blocks until the GIL is free, takes it and enters update.
WithGil(w) ==
    /\ wpc[w] = "with_gil"
    /\ gil = NoThread
    /\ gil' = w
    /\ acquired' = [acquired EXCEPT !["worker"] = @ + 1]
    /\ received' = [received EXCEPT ![widx[w]] = Append(@, current_tick)]
    /\ wpc' = [wpc EXCEPT ![w] = "update"]
    /\ UNCHANGED <<systems, current_tick, cpc, full, nst, nres, wnode, widx,
                   wret, wctrl, result, raisedBy, firstFailure, failedBefore>>

\* Variant: whatever update raised is replaced by one fixed error.
CallMethod_FixedError(i) == IF System(i) = "ok" THEN Continue ELSE Err(i, "boom")

\* system.call_method1(py, "update", (current_tick,))?; Ok(()): what the
\* closure returns for systems_vec[i].
CallMethod(i) == IF System(i) = "ok" THEN Continue ELSE Err(i, System(i))

\* Variant: the GIL guard is dropped on Ok(()) only, `?` leaving with it held.
DropGil_HeldOnErr(w) ==
    /\ wpc[w] = "update"
    /\ wret' = [wret EXCEPT ![w] = CallMethod(widx[w])]
    /\ gil' = IF CallMethod(widx[w]) = Continue THEN NoThread ELSE gil
    /\ wpc' = [wpc EXCEPT ![w] = "consume"]
    /\ UNCHANGED <<systems, current_tick, cpc, full, nst, nres, wnode, widx,
                   wctrl, received, acquired, result, raisedBy,
                   firstFailure, failedBefore>>

\* Variant: the GIL guard is kept while the fold has further items.
DropGil_HeldAcrossItems(w) ==
    /\ wpc[w] = "update"
    /\ wret' = [wret EXCEPT ![w] = CallMethod(widx[w])]
    /\ gil' = IF widx[w] + 1 < wnode[w][2] THEN gil ELSE NoThread
    /\ wpc' = [wpc EXCEPT ![w] = "consume"]
    /\ UNCHANGED <<systems, current_tick, cpc, full, nst, nres, wnode, widx,
                   wctrl, received, acquired, result, raisedBy, firstFailure,
                   failedBefore>>

\* update returns or raises, `?` turns a raise into the closure's Err, and the
\* closure of with_gil ends, by Ok(()) or by `?`: the GIL guard is dropped.
DropGil(w) ==
    /\ wpc[w] = "update"
    /\ wret' = [wret EXCEPT ![w] = CallMethod(widx[w])]
    /\ gil' = NoThread
    /\ wpc' = [wpc EXCEPT ![w] = "consume"]
    /\ UNCHANGED <<systems, current_tick, cpc, full, nst, nres, wnode, widx,
                   wctrl, received, acquired, result, raisedBy,
                   firstFailure, failedBefore>>

\* Variant: the folder ignores an item's Err.
Control_Swallows(ctrl, ret) == ctrl

\* The folder's control after an item: an Err breaks it.
Control(ctrl, ret) == IF ctrl = Continue THEN ret ELSE ctrl

\* The try-reduce folder takes the item's value: an Err raises `full`.  The
\* fold goes on to the next item unless the folder is full (its own Err, or
\* the shared flag) or the range is exhausted; then folder.complete() makes
\* the folder's control the leaf's value and the fold's locals go out of scope.
Consume(w) ==
    /\ wpc[w] = "consume"
    /\ LET ctrl == Control(wctrl[w], wret[w])
           flag == full \/ ctrl # Continue
           next == widx[w] + 1
       IN  /\ full' = flag
           /\ firstFailure' = IF firstFailure = -1 /\ wret[w] # Continue
                                 THEN wret[w].task
                                 ELSE firstFailure
           /\ IF flag \/ next = wnode[w][2]
                 THEN /\ nst' = [nst EXCEPT ![wnode[w]] = "done"]
                      /\ nres' = [nres EXCEPT ![wnode[w]] = ctrl]
                      /\ wpc' = [wpc EXCEPT ![w] = "idle"]
                      /\ wnode' = [wnode EXCEPT ![w] = <<0, 0>>]
                      /\ widx' = [widx EXCEPT ![w] = 0]
                      /\ wctrl' = [wctrl EXCEPT ![w] = Continue]
                 ELSE /\ wpc' = [wpc EXCEPT ![w] = "with_gil"]
                      /\ widx' = [widx EXCEPT ![w] = next]
                      /\ wctrl' = [wctrl EXCEPT ![w] = ctrl]
                      /\ UNCHANGED <<nst, nres, wnode>>
    /\ wret' = [wret EXCEPT ![w] = Continue]
    /\ UNCHANGED <<systems, current_tick, cpc, gil, received, acquired, result,
                   raisedBy, failedBefore>>

\* Variant: a Continue on either side wins over a residual.
Reduce_ContinueWins(left, right) ==
    IF left = Continue \/ right = Continue THEN Continue ELSE left

\* Variant: of two residuals the right one wins.
Reduce_RightWins(left, right) == IF right # Continue THEN right ELSE left

\* The try-reduce reducer: a residual wins over a Continue, the left one over
\* the right one.
Reduce(left, right) == IF left # Continue THEN left ELSE right

\* Both halves of a join are done: the range's value is their reduction.
JoinReduce(r) ==
    /\ nst[r] = "split"
    /\ nst[LeftOf(r)] = "done"
    /\ nst[RightOf(r)] = "done"
    /\ nst' = [nst EXCEPT ![r] = "done"]
    /\ nres' = [nres EXCEPT ![r] = Reduce(nres[LeftOf(r)], nres[RightOf(r)])]
    /\ UNCHANGED <<systems, current_tick, cpc, gil, full, wpc, wnode, widx,
                   wret, wctrl, received, acquired, result, raisedBy,
                   firstFailure, failedBefore>>

\* Variant: run returns as soon as a failure is recorded, not joining the pool.
Return_OnFailure ==
    /\ cpc = "allow_threads"
    /\ nst[Root] = "done" \/ full
    /\ gil = NoThread
    /\ gil' = Caller
    /\ acquired' = [acquired EXCEPT !["caller"] = @ + 1]
    /\ result' = IF nres[Root] = Continue THEN "Ok" ELSE nres[Root].err
    /\ raisedBy' = nres[Root].task
    /\ cpc' = "returned"
    /\ UNCHANGED <<systems, current_tick, full, nst, nres, wpc, wnode, widx,
                   wret, wctrl, received, firstFailure, failedBefore>>

\* Variant: run returns without taking the GIL back.
Return_KeepsReleased ==
    /\ cpc = "allow_threads"
    /\ nst[Root] = "done"
    /\ gil = NoThread
    /\ acquired' = [acquired EXCEPT !["caller"] = @ + 1]
    /\ result' = IF nres[Root] = Continue THEN "Ok" ELSE nres[Root].err
    /\ raisedBy' = nres[Root].task
    /\ cpc' = "returned"
    /\ UNCHANGED <<systems, current_tick, gil, full, nst, nres, wpc, wnode,
                   widx, wret, wctrl, received, firstFailure, failedBefore>>

\* The pool is done with the whole range: allow_threads takes the GIL back
\* and run returns the reduced value.
Return ==
    /\ cpc = "allow_threads"
    /\ nst[Root] = "done"
    /\ gil = NoThread
    /\ gil' = Caller
    /\ acquired' = [acquired EXCEPT !["caller"] = @ + 1]
    /\ result' = IF nres[Root] = Continue THEN "Ok" ELSE nres[Root].err
    /\ raisedBy' = nres[Root].task
    /\ cpc' = "returned"
    /\ UNCHANGED <<systems, current_tick, full, nst, nres, wpc, wnode, widx,
                   wret, wctrl, received, firstFailure, failedBefore>>

Worker(w) ==
    \/ \E r \in Ranges : HelperFull(w, r)
    \/ \E r \in Ranges : HelperSplit(w, r)
    \/ \E r \in Ranges : HelperFold(w, r)
    \/ WithGil(w)
    \/ DropGil(w)
    \/ Consume(w)

Next ==
    \/ AllowThreads
    \/ \E w \in Workers : Worker(w)
    \/ \E r \in Ranges : JoinReduce(r)
    \/ Return

Spec == Init /\ [][Next]_vars

\* Variant: the failure flag lives in the runner and outlasts the call.
NextRun_KeepsFull ==
    /\ cpc = "returned"
    /\ systems' \in UNION {[1..n -> Outcomes] : n \in 0..MaxBatch}
    /\ current_tick' \in Ticks
    /\ cpc' = "entry"
    /\ nst' = [r \in Ranges |-> "none"]
    /\ nres' = [r \in Ranges |-> Continue]
    /\ received' = [i \in 0..(MaxBatch - 1) |-> <<>>]
    /\ acquired' = [t \in {"worker", "caller"} |-> 0]
    /\ result' = "none"
    /\ raisedBy' = -1
    /\ firstFailure' = -1
    /\ failedBefore' = (failedBefore \/ result # "Ok")
    /\ UNCHANGED <<gil, full, wpc, wnode, widx, wret, wctrl>>

\* run is called again on the same runner, with another list and tick.  The
\* runner has no field; what a call leaves behind is the GIL in the caller's
\* hands and the pool's idle workers.  systems_vec, the job tree and its
\* values, and try_for_each's `full` flag are made anew by each call.
NextRun ==
    /\ cpc = "returned"
    /\ systems' \in UNION {[1..n -> Outcomes] : n \in 0..MaxBatch}
    /\ current_tick' \in Ticks
    /\ cpc' = "entry"
    /\ full' = FALSE
    /\ nst' = [r \in Ranges |-> "none"]
    /\ nres' = [r \in Ranges |-> Continue]
    /\ received' = [i \in 0..(MaxBatch - 1) |-> <<>>]
    /\ acquired' = [t \in {"worker", "caller"} |-> 0]
    /\ result' = "none"
    /\ raisedBy' = -1
    /\ firstFailure' = -1
    /\ failedBefore' = (failedBefore \/ result # "Ok")
    /\ UNCHANGED <<gil, wpc, wnode, widx, wret, wctrl>>

\* One runner, called again and again.
RunsNext == Next \/ NextRun

RunsSpec == Init /\ [][RunsNext]_vars

\* Scheduling is fair to the extent that the threads do not all stop while one
\* of them can take a step (a blocked with_gil is no step).
FairSpec == Spec /\ WF_vars(Next)

(***************************************************************************)
(* What the properties below speak of.                                     *)
(***************************************************************************)
Positions == 0..(Len(systems) - 1)
Returned == cpc = "returned"
Invoked(i) == received[i] # <<>>
InUpdate == {w \in Workers : wpc[w] = "update"}

\* The positions whose update was invoked and has raised.
Failed ==
    {i \in Positions :
        /\ Invoked(i)
        /\ System(i) # "ok"
        /\ ~ \E w \in InUpdate : widx[w] = i}

\* The threads inside a scope that holds the GIL: a worker inside with_gil, the
\* caller outside allow_threads.
Holders == InUpdate \cup (IF cpc = "allow_threads" THEN {} ELSE {Caller})

\* C1: at any moment at most one thread is inside a scope that holds the gate,
\* it is the thread the gate is held by, and so at most one update is executing.
C1_MutualExclusion ==
    /\ Cardinality(Holders) <= 1
    /\ Cardinality(InUpdate) <= 1
    /\ \A t \in Holders : gil = t

\* One worker is inside update while another waits for the gate.
C1_Witness ==
    \E w, v \in Workers : w # v /\ wpc[w] = "update" /\ wpc[v] = "with_gil"

\* C2: when every system's update succeeds, run returns success and every
\* position's update was invoked exactly once, with the tick given to run.
C2_AllSucceed ==
    (Returned /\ \A i \in Positions : System(i) = "ok")
        => /\ result = "Ok"
           /\ \A i \in Positions : received[i] = <<current_tick>>

\* An all-succeeding batch that the pool cut in halves has returned.
C2_Witness ==
    /\ Returned
    /\ Len(systems) >= 2
    /\ \A i \in Positions : System(i) = "ok"
    /\ nst[LeftOf(Root)] = "done"

\* C3: when some system's update fails, run never returns success: it returns
\* the error of a position whose update was invoked and raised.
C3_FailingBatch ==
    (Returned /\ \E i \in Positions : System(i) # "ok")
        => /\ result \in Msgs
           /\ \E i \in Failed : System(i) = result

\* run has returned an error although a lower position's update fails too.
C3_Witness ==
    /\ Returned
    /\ result \in Msgs
    /\ \E i \in Positions : System(i) # "ok" /\ i < raisedBy

C5_ExactlyOnceAlways ==
    Returned => \A i \in Positions : Len(received[i]) = 1

\* C5, amended: no position's update is ever invoked twice; at a successful
\* return every one was invoked once, and at a failed return the one whose
\* error is returned was.
C5_AtMostOnce ==
    /\ \A i \in Positions : Len(received[i]) <= 1
    /\ Returned =>
          IF result = "Ok"
              THEN \A i \in Positions : Len(received[i]) = 1
              ELSE raisedBy \in Positions /\ Len(received[raisedBy]) = 1

\* The batch <<ok, boom, ok>> has returned with positions 0 and 2 never invoked.
C5_Witness ==
    /\ Returned
    /\ systems = <<"ok", "boom", "ok">>
    /\ received[0] = <<>>
    /\ received[2] = <<>>
    /\ Len(received[1]) = 1

\* C6: a worker whose update call has returned an error does not hold the
\* gate.
C6_ReleasedOnError ==
    \A w \in Workers :
        (wpc[w] = "consume" /\ wret[w] # Continue) => gil # w

\* A worker's update has failed and another worker has since taken the gate.
C6_Witness ==
    \E w, v \in Workers :
        /\ w # v
        /\ wpc[w] = "consume"
        /\ wret[w] # Continue
        /\ wpc[v] = "update"
        /\ gil = v

\* C7: under fair scheduling every run call eventually returns.
C7_RunReturns == <>Returned

\* A failing batch that the pool cut in halves has returned.
C7_Witness ==
    /\ Returned
    /\ Len(systems) = MaxBatch
    /\ result \in Msgs
    /\ nst[RightOf(Root)] = "done"

\* C8: every update invocation receives the tick given to run.
C8_TickUnchanged ==
    \A i \in DOMAIN received :
        \A k \in 1..Len(received[i]) : received[i][k] = current_tick

\* A failed run in which two positions were invoked has returned.
C8_Witness ==
    /\ Returned
    /\ result \in Msgs
    /\ Cardinality({i \in Positions : Invoked(i)}) >= 2

\* C9 as stated: an empty batch returns success with no gate acquisition at
\* all during the call.
C9_NoAcquisition ==
    (Returned /\ Len(systems) = 0)
        => /\ result = "Ok"
           /\ acquired["worker"] = 0
           /\ acquired["caller"] = 0

\* C9, amended: for an empty batch no worker ever acquires the gate and run
\* returns success; the one acquisition of the call is the caller's, taking
\* the gate back as allow_threads ends.
C9_EmptyBatch ==
    Len(systems) = 0
        => /\ acquired["worker"] = 0
           /\ Returned => (result = "Ok" /\ acquired["caller"] = 1)

\* The empty batch has returned.
C9_Witness == Returned /\ Len(systems) = 0

\* C10: run returns one outcome; when two or more updates failed it is still
\* the one error of one of them.
C10_SingleOutcome ==
    Returned =>
        /\ result \in {"Ok"} \cup Msgs
        /\ Cardinality(Failed) >= 2 =>
              /\ result \in Msgs
              /\ raisedBy \in Failed
              /\ result = System(raisedBy)

\* Two updates failed with different errors, and run returned one of them.
C10_Witness ==
    /\ Returned
    /\ Cardinality(Failed) >= 2
    /\ \E i \in Failed : System(i) # result

\* C12: a worker that takes its next piece of work while the failure is on
\* record (a ready range, or the next item of its fold: the two places where
\* it reads the flag), or whose own update has just failed, does not go on
\* to invoke an update; and the record, once made, stays.
C12_ShortCircuit ==
    [][/\ full => full'
       /\ \A w \in Workers :
             ((full \/ wret[w] # Continue) /\ wpc[w] \in {"idle", "consume"})
                 => wpc'[w] # "with_gil"]_vars

\* A fold that stopped at a failing item with items of its range left over,
\* never invoked, has been returned from.
C12_Witness ==
    /\ Returned
    /\ \E r \in Ranges :
          /\ r[2] - r[1] >= 2
          /\ nst[r] = "done"
          /\ nst[LeftOf(r)] = "none"
          /\ nres[r] # Continue
          /\ nres[r].task < r[2] - 1
          /\ ~Invoked(r[2] - 1)

\* C13: an update in progress is left only by its own return, whatever else
\* is recorded meanwhile, and run has not returned while any worker is still
\* inside update, holds the gate, or is anywhere in a fold.
C13_NoPreemption ==
    /\ [](Returned =>
            /\ \A w \in Workers : wpc[w] = "idle"
            /\ gil = Caller
            /\ \A r \in Ranges : nst[r] \in {"none", "done"})
    /\ [][\A w \in Workers :
            wpc[w] = "update" =>
                \/ wpc'[w] = "update"
                \/ wpc'[w] = "consume" /\ wret'[w] = CallMethod(widx[w])]_vars

\* An update is in progress while another task's failure is on record.
C13_Witness == \E w \in Workers : wpc[w] = "update" /\ full

RECURSIVE Invocations(_)
\* The number of update invocations on positions below n.
Invocations(n) == IF n = 0 THEN 0 ELSE Len(received[n - 1]) + Invocations(n - 1)

\* C15: a worker holds the gate exactly while it is inside one update: not
\* while it waits, takes the item's value or picks its next item; and there
\* is one acquisition by a worker for each invocation.
C15_HeldForOneUpdate ==
    /\ \A w \in Workers : (gil = w) <=> (wpc[w] = "update")
    /\ acquired["worker"] = Invocations(MaxBatch)

\* A worker waits for the gate for a later item of its fold, not holding it.
C15_Witness ==
    \E w \in Workers :
        /\ wpc[w] = "with_gil"
        /\ widx[w] > wnode[w][1]
        /\ gil # w

\* C16: under fair scheduling a worker that waits for the gate eventually
\* holds it.
C16_NoStarvation ==
    \A w \in Workers : (wpc[w] = "with_gil") ~> (wpc[w] = "update")

\* A worker waits while another holds the gate for a later item of its fold.
C16_Witness ==
    \E w, v \in Workers :
        /\ w # v
        /\ wpc[w] = "with_gil"
        /\ wpc[v] = "update"
        /\ widx[v] > wnode[v][1]

\* C17: a run on a runner whose earlier run returned an error behaves as a
\* first run does: no failure is on record when it starts, and if all its
\* tasks succeed it returns success with every task invoked once.
C17_Stateless ==
    failedBefore =>
        /\ cpc = "entry" => (~full /\ gil = Caller)
        /\ (Returned /\ \A i \in Positions : System(i) = "ok")
              => /\ result = "Ok"
                 /\ \A i \in Positions : received[i] = <<current_tick>>

\* After a run that returned an error, a run of a batch of succeeding tasks
\* has returned.
C17_Witness ==
    /\ failedBefore
    /\ Returned
    /\ Len(systems) >= 2
    /\ \A i \in Positions : System(i) = "ok"

\* C18: the caller holds the gate when it enters run and when run returns,
\* nothing is fanned out before it has released it, and during the parallel
\* phase it is not the holder.
C18_CallerReleases ==
    /\ cpc = "entry" => (gil = Caller /\ \A r \in Ranges : nst[r] = "none")
    /\ cpc = "allow_threads" => gil # Caller
    /\ Returned => gil = Caller
    /\ (\E w \in Workers : wpc[w] # "idle") => gil # Caller

\* A worker holds the gate while the caller is blocked in allow_threads.
C18_Witness ==
    /\ cpc = "allow_threads"
    /\ \E w \in Workers : gil = w

\* C19: no position's update is invoked more than once, and no two workers
\* fold ranges that share a position.
C19_AtMostOnce ==
    /\ \A i \in DOMAIN received : Len(received[i]) <= 1
    /\ \A w, v \in Workers :
          (w # v /\ wpc[w] # "idle" /\ wpc[v] # "idle")
              => (wnode[w][2] <= wnode[v][1] \/ wnode[v][2] <= wnode[w][1])

\* A failed run in which every position was nevertheless invoked, once each.
C19_Witness ==
    /\ Returned
    /\ result \in Msgs
    /\ Len(systems) >= 2
    /\ \A i \in Positions : Len(received[i]) = 1

====
